---- MODULE Spec2Model ----
(***************************************************************************)
(* Pension-Monitor: the relevance scorer, the seen-article store and the   *)
(* ranking pipeline of src/pension_monitor.py.                              *)
(*                                                                         *)
(* Text.  A Python str is modelled as a sequence of fragments (TLA+         *)
(* strings) that denotes the fragments joined by single blanks; the        *)
(* fragment " " is extra white space and <<>> is the empty string.  The    *)
(* fragments used are listed in SubstringsOf, which tabulates, for each    *)
(* lower-cased fragment, the registry phrases that occur in it as Python   *)
(* substrings.  No registry phrase spans two of these fragments.           *)
(*                                                                         *)
(* Time.  An instant is a day number; isoformat() renders it as fixed      *)
(* width decimal digits, and the store compares the rendered strings.      *)
(***************************************************************************)
EXTENDS Integers, Sequences, FiniteSets, TLC

VARIABLES
  clock,      \* datetime.utcnow(), in days
  file,       \* CACHE_FILE: the persisted store
  pc,         \* per process: where its filter_and_rank call stands
  articles,   \* per process: the argument `articles`
  min_score,  \* per process: the argument `min_score`
  seen_cache, \* per process: the local `seen_cache` as loaded
  unique,     \* per process: the local `unique`, in insertion order
  ranked,     \* per process: the returned list `ranked`
  error,      \* per process: the exception that ended the call, if any
  loaded,     \* history: per process, the file and the clock at load time
  runs,       \* history: number of calls started so far
  delivered,  \* history: what completed calls returned, and when
  faults,     \* history: how often the file was damaged from outside
  article,    \* scorer harness: the argument of score_article
  scored      \* scorer harness: what score_article returned

vars == << clock, file, pc, articles, min_score, seen_cache, unique, ranked,
           error, loaded, runs, delivered, faults, article, scored >>

-----------------------------------------------------------------------------
(* Configuration and registries                                            *)

MAX_CACHE_AGE_DAYS == 30

PENSION_FUNDS ==
  << "CalPERS", "CalSTRS", "New York State Common Retirement Fund",
     "New York City Retirement Systems",
     "Florida State Board of Administration",
     "Texas Teachers Retirement System",
     "New York State Teachers Retirement System",
     "State of Wisconsin Investment Board",
     "Washington State Investment Board",
     "Ohio Public Employees Retirement System",
     "North Carolina Retirement Systems", "New Jersey Division of Investment",
     "Virginia Retirement System", "Oregon Investment Council",
     "Michigan Retirement Systems", "Pennsylvania Public School Employees",
     "State Teachers Retirement System of Ohio",
     "Minnesota State Board of Investment", "Colorado PERA",
     "Massachusetts PRIM", "Los Angeles County Employees Retirement", "LACERA",
     "Teacher Retirement System of Texas", "Maryland State Retirement",
     "Connecticut Retirement Plans",
     "Tennessee Consolidated Retirement System",
     "South Carolina Retirement System",
     "Iowa Public Employees Retirement System",
     "Los Angeles Fire and Police Pensions", "LAFPP",
     "Missouri State Employees Retirement System",
     "Kentucky Retirement Systems", "Arizona State Retirement System",
     "Indiana Public Retirement System",
     "San Francisco Employees Retirement System", "SFERS",
     "Illinois Teachers Retirement System",
     "Illinois State Board of Investment",
     "Illinois Municipal Retirement Fund",
     "State Universities Retirement System Illinois",
     "Hawaii Employees Retirement System",
     "New Mexico State Investment Council",
     "Oklahoma Teachers Retirement System",
     "Nevada Public Employees Retirement System",
     "Kansas Public Employees Retirement System",
     "Louisiana State Employees Retirement", "Utah Retirement Systems",
     "Rhode Island State Investment Commission", "Alabama Retirement Systems",
     "Mississippi Public Employees Retirement System",
     "San Diego County Employees Retirement", "SDCERA",
     "Orange County Employees Retirement System", "OCERS",
     "Contra Costa County Employees Retirement", "CCCERA",
     "San Bernardino County Employees Retirement",
     "Alameda County Employees Retirement", "ACERA",
     "Sacramento County Employees Retirement",
     "Dallas Police and Fire Pension",
     "Houston Firefighters Relief and Retirement",
     "Teachers Retirement Association of Minnesota",
     "Public Employee Retirement System of Idaho",
     "Nebraska Investment Council", "Arkansas Teacher Retirement System",
     "West Virginia Investment Management Board",
     "Maine Public Employees Retirement System",
     "New Hampshire Retirement System",
     "Vermont Pension Investment Commission", "Wyoming Retirement System",
     "Montana Board of Investments", "North Dakota State Investment Board",
     "South Dakota Investment Council", "Alaska Permanent Fund",
     "Delaware Public Employees Retirement System",
     "District of Columbia Retirement Board", "Chicago Teachers Pension Fund",
     "Chicago Municipal Employees", "Chicago Police Pension Fund",
     "Chicago Fire Pension Fund", "New York City Teachers Retirement System",
     "New York City Police Pension Fund", "New York City Fire Pension Fund",
     "Philadelphia Board of Pensions", "Detroit General Retirement System",
     "San Jose Federated City Employees Retirement",
     "Employees Retirement System of Texas", "ERS Texas",
     "Pennsylvania State Employees Retirement System", "SERS Pennsylvania",
     "Georgia Teachers Retirement System",
     "Employees Retirement System of Georgia",
     "Municipal Employees Annuity Benefit Fund Chicago",
     "Denver Employees Retirement Plan",
     "Jacksonville Police and Fire Pension",
     "Fresno County Employees Retirement", "Kern County Employees Retirement",
     "Tulare County Employees Retirement",
     "Ventura County Employees Retirement",
     "Santa Barbara County Employees Retirement",
     "Sonoma County Employees Retirement", "Marin County Employees Retirement",
     "San Mateo County Employees Retirement",
     "Stanislaus County Employees Retirement" >>

ASSET_CLASSES ==
  << "private credit", "private equity", "venture capital", "private debt",
     "direct lending", "mezzanine", "growth equity", "buyout fund",
     "credit fund", "alternative credit", "infrastructure debt" >>

ACTION_KEYWORDS ==
  << "allocate", "allocated", "allocation", "commit", "committed",
     "commitment", "increase", "increased", "raise", "raised", "approve",
     "approved", "invest", "invested", "investment", "deploy", "deployed",
     "new fund", "fund raise", "fundraise", "capital call", "co-invest",
     "co-investment", "mandate", "awarded", "target allocation",
     "strategic allocation", "rebalance", "overweight", "pacing plan",
     "vintage year", "emerging manager", "first-time fund" >>

EXCLUDE_KEYWORDS ==
  << "lawsuit", "scandal", "bankruptcy", "fraud", "pension crisis",
     "underfunded", "layoff" >>

pension_generics ==
  << "pension", "retirement system", "retirement fund", "public employees" >>

-----------------------------------------------------------------------------
(* Python values of a dict field: a str, None, or no such key              *)

Str(s) == [k |-> "str", s |-> s]

None == [k |-> "none", s |-> << >>]

Absent == [k |-> "absent", s |-> << >>]

\* dict.get(key): without the default a missing key yields None
get_NoDefault(d, key) == IF d[key].k = "absent" THEN None ELSE d[key]

\* dict.get(key, ""): the default stands in for a missing key only
get(d, key) == IF d[key].k = "absent" THEN Str(<< >>) ELSE d[key]

\* Python truthiness of a str-or-None
truthy(v) == v.k = "str" /\ v.s # << >>

\* Python `a or b`
or(a, b) == IF truthy(a) THEN a ELSE b

\* f"{v}": None is rendered as the text None
format(v) == IF v.k = "none" THEN << "None" >> ELSE v.s

\* str.lower() of one fragment
Lower(w) ==
  CASE w = "CalPERS" -> "calpers"
    [] w = "CalSTRS" -> "calstrs"
    [] w = "New York State Common Retirement Fund" -> "new york state common retirement fund"
    [] w = "New York City Retirement Systems" -> "new york city retirement systems"
    [] w = "Florida State Board of Administration" -> "florida state board of administration"
    [] w = "Texas Teachers Retirement System" -> "texas teachers retirement system"
    [] w = "New York State Teachers Retirement System" -> "new york state teachers retirement system"
    [] w = "State of Wisconsin Investment Board" -> "state of wisconsin investment board"
    [] w = "Washington State Investment Board" -> "washington state investment board"
    [] w = "Ohio Public Employees Retirement System" -> "ohio public employees retirement system"
    [] w = "North Carolina Retirement Systems" -> "north carolina retirement systems"
    [] w = "New Jersey Division of Investment" -> "new jersey division of investment"
    [] w = "Virginia Retirement System" -> "virginia retirement system"
    [] w = "Oregon Investment Council" -> "oregon investment council"
    [] w = "Michigan Retirement Systems" -> "michigan retirement systems"
    [] w = "Pennsylvania Public School Employees" -> "pennsylvania public school employees"
    [] w = "State Teachers Retirement System of Ohio" -> "state teachers retirement system of ohio"
    [] w = "Minnesota State Board of Investment" -> "minnesota state board of investment"
    [] w = "Colorado PERA" -> "colorado pera"
    [] w = "Massachusetts PRIM" -> "massachusetts prim"
    [] w = "Los Angeles County Employees Retirement" -> "los angeles county employees retirement"
    [] w = "LACERA" -> "lacera"
    [] w = "Teacher Retirement System of Texas" -> "teacher retirement system of texas"
    [] w = "Maryland State Retirement" -> "maryland state retirement"
    [] w = "Connecticut Retirement Plans" -> "connecticut retirement plans"
    [] w = "Tennessee Consolidated Retirement System" -> "tennessee consolidated retirement system"
    [] w = "South Carolina Retirement System" -> "south carolina retirement system"
    [] w = "Iowa Public Employees Retirement System" -> "iowa public employees retirement system"
    [] w = "Los Angeles Fire and Police Pensions" -> "los angeles fire and police pensions"
    [] w = "LAFPP" -> "lafpp"
    [] w = "Missouri State Employees Retirement System" -> "missouri state employees retirement system"
    [] w = "Kentucky Retirement Systems" -> "kentucky retirement systems"
    [] w = "Arizona State Retirement System" -> "arizona state retirement system"
    [] w = "Indiana Public Retirement System" -> "indiana public retirement system"
    [] w = "San Francisco Employees Retirement System" -> "san francisco employees retirement system"
    [] w = "SFERS" -> "sfers"
    [] w = "Illinois Teachers Retirement System" -> "illinois teachers retirement system"
    [] w = "Illinois State Board of Investment" -> "illinois state board of investment"
    [] w = "Illinois Municipal Retirement Fund" -> "illinois municipal retirement fund"
    [] w = "State Universities Retirement System Illinois" -> "state universities retirement system illinois"
    [] w = "Hawaii Employees Retirement System" -> "hawaii employees retirement system"
    [] w = "New Mexico State Investment Council" -> "new mexico state investment council"
    [] w = "Oklahoma Teachers Retirement System" -> "oklahoma teachers retirement system"
    [] w = "Nevada Public Employees Retirement System" -> "nevada public employees retirement system"
    [] w = "Kansas Public Employees Retirement System" -> "kansas public employees retirement system"
    [] w = "Louisiana State Employees Retirement" -> "louisiana state employees retirement"
    [] w = "Utah Retirement Systems" -> "utah retirement systems"
    [] w = "Rhode Island State Investment Commission" -> "rhode island state investment commission"
    [] w = "Alabama Retirement Systems" -> "alabama retirement systems"
    [] w = "Mississippi Public Employees Retirement System" -> "mississippi public employees retirement system"
    [] w = "San Diego County Employees Retirement" -> "san diego county employees retirement"
    [] w = "SDCERA" -> "sdcera"
    [] w = "Orange County Employees Retirement System" -> "orange county employees retirement system"
    [] w = "OCERS" -> "ocers"
    [] w = "Contra Costa County Employees Retirement" -> "contra costa county employees retirement"
    [] w = "CCCERA" -> "cccera"
    [] w = "San Bernardino County Employees Retirement" -> "san bernardino county employees retirement"
    [] w = "Alameda County Employees Retirement" -> "alameda county employees retirement"
    [] w = "ACERA" -> "acera"
    [] w = "Sacramento County Employees Retirement" -> "sacramento county employees retirement"
    [] w = "Dallas Police and Fire Pension" -> "dallas police and fire pension"
    [] w = "Houston Firefighters Relief and Retirement" -> "houston firefighters relief and retirement"
    [] w = "Teachers Retirement Association of Minnesota" -> "teachers retirement association of minnesota"
    [] w = "Public Employee Retirement System of Idaho" -> "public employee retirement system of idaho"
    [] w = "Nebraska Investment Council" -> "nebraska investment council"
    [] w = "Arkansas Teacher Retirement System" -> "arkansas teacher retirement system"
    [] w = "West Virginia Investment Management Board" -> "west virginia investment management board"
    [] w = "Maine Public Employees Retirement System" -> "maine public employees retirement system"
    [] w = "New Hampshire Retirement System" -> "new hampshire retirement system"
    [] w = "Vermont Pension Investment Commission" -> "vermont pension investment commission"
    [] w = "Wyoming Retirement System" -> "wyoming retirement system"
    [] w = "Montana Board of Investments" -> "montana board of investments"
    [] w = "North Dakota State Investment Board" -> "north dakota state investment board"
    [] w = "South Dakota Investment Council" -> "south dakota investment council"
    [] w = "Alaska Permanent Fund" -> "alaska permanent fund"
    [] w = "Delaware Public Employees Retirement System" -> "delaware public employees retirement system"
    [] w = "District of Columbia Retirement Board" -> "district of columbia retirement board"
    [] w = "Chicago Teachers Pension Fund" -> "chicago teachers pension fund"
    [] w = "Chicago Municipal Employees" -> "chicago municipal employees"
    [] w = "Chicago Police Pension Fund" -> "chicago police pension fund"
    [] w = "Chicago Fire Pension Fund" -> "chicago fire pension fund"
    [] w = "New York City Teachers Retirement System" -> "new york city teachers retirement system"
    [] w = "New York City Police Pension Fund" -> "new york city police pension fund"
    [] w = "New York City Fire Pension Fund" -> "new york city fire pension fund"
    [] w = "Philadelphia Board of Pensions" -> "philadelphia board of pensions"
    [] w = "Detroit General Retirement System" -> "detroit general retirement system"
    [] w = "San Jose Federated City Employees Retirement" -> "san jose federated city employees retirement"
    [] w = "Employees Retirement System of Texas" -> "employees retirement system of texas"
    [] w = "ERS Texas" -> "ers texas"
    [] w = "Pennsylvania State Employees Retirement System" -> "pennsylvania state employees retirement system"
    [] w = "SERS Pennsylvania" -> "sers pennsylvania"
    [] w = "Georgia Teachers Retirement System" -> "georgia teachers retirement system"
    [] w = "Employees Retirement System of Georgia" -> "employees retirement system of georgia"
    [] w = "Municipal Employees Annuity Benefit Fund Chicago" -> "municipal employees annuity benefit fund chicago"
    [] w = "Denver Employees Retirement Plan" -> "denver employees retirement plan"
    [] w = "Jacksonville Police and Fire Pension" -> "jacksonville police and fire pension"
    [] w = "Fresno County Employees Retirement" -> "fresno county employees retirement"
    [] w = "Kern County Employees Retirement" -> "kern county employees retirement"
    [] w = "Tulare County Employees Retirement" -> "tulare county employees retirement"
    [] w = "Ventura County Employees Retirement" -> "ventura county employees retirement"
    [] w = "Santa Barbara County Employees Retirement" -> "santa barbara county employees retirement"
    [] w = "Sonoma County Employees Retirement" -> "sonoma county employees retirement"
    [] w = "Marin County Employees Retirement" -> "marin county employees retirement"
    [] w = "San Mateo County Employees Retirement" -> "san mateo county employees retirement"
    [] w = "Stanislaus County Employees Retirement" -> "stanislaus county employees retirement"
    [] w = "HTTP://X/A" -> "http://x/a"
    [] w = "None" -> "none"
    [] OTHER -> w

lower(s) == [i \in 1..Len(s) |-> Lower(s[i])]

RECURSIVE lstrip(_)
lstrip(s) == IF s # << >> /\ Head(s) = " " THEN lstrip(Tail(s)) ELSE s

RECURSIVE rstrip(_)
rstrip(s) ==
  IF s # << >> /\ s[Len(s)] = " " THEN rstrip(SubSeq(s, 1, Len(s) - 1)) ELSE s

strip(s) == rstrip(lstrip(s))

\* The registry phrases that are substrings of a lower-cased fragment
SubstringsOf(w) ==
  CASE w = "calpers" -> {"calpers"}
    [] w = "pension fund" -> {"pension"}
    [] w = "private equity" -> {"private equity"}
    [] w = "private credit fund" -> {"private credit", "credit fund"}
    [] w = "venture capital" -> {"venture capital"}
    [] w = "co-investment" ->
         {"invest", "investment", "co-invest", "co-investment"}
    [] w = "committed" -> {"commit", "committed"}
    [] w = "approves" -> {"approve"}
    [] w = "lawsuit" -> {"lawsuit"}
    [] w = "fraud" -> {"fraud"}
    [] w = "scandal" -> {"scandal"}
    [] w = "pension crisis" -> {"pension", "pension crisis"}
    [] OTHER -> {}

\* every registry phrase p for which Python's `p in text` holds
Phrases(text) == UNION {SubstringsOf(text[i]) : i \in 1..Len(text)}

\* Python `phrase in text`
in(phrase, text) == phrase \in Phrases(text)

\* re.search(dollar_pattern, text, re.IGNORECASE)
re_search(text) == \E i \in 1..Len(text) : text[i] \in {"$500 million"}

min(a, b) == IF a < b THEN a ELSE b

max(a, b) == IF a > b THEN a ELSE b

-----------------------------------------------------------------------------
(* score_article                                                           *)

\* text = f"{article.get('title', '')} {article.get('snippet', '')}".lower()
TextOf(a) ==
  lower(format(get(a, "title")) \o << " " >> \o format(get(a, "snippet")))

\* fund.lower() for every fund of the registry
FundLower == [i \in 1..Len(PENSION_FUNDS) |-> Lower(PENSION_FUNDS[i])]

\* the funds of the registry that the text names, in registry order
NamedFunds(text) ==
  LET found == Phrases(text)
      hits == SelectSeq([i \in 1..Len(PENSION_FUNDS) |-> i],
                        LAMBDA i : FundLower[i] \in found)
  IN  [j \in 1..Len(hits) |-> PENSION_FUNDS[hits[j]]]

\* pension_match: a fund of the registry is named (the generic terms do not
\* set it)
pension_match(text) == NamedFunds(text) # << >>

generic_match(text) ==
  LET found == Phrases(text)
  IN  \E i \in 1..Len(pension_generics) : pension_generics[i] \in found

Matched(registry, text) ==
  LET found == Phrases(text)
  IN  SelectSeq(registry, LAMBDA phrase : phrase \in found)

matched_assets(text) == Matched(ASSET_CLASSES, text)

asset_match(text) == matched_assets(text) # << >>

matched_actions(text) == Matched(ACTION_KEYWORDS, text)

matched_excludes(text) == Matched(EXCLUDE_KEYWORDS, text)

\* the score after the additive and subtractive signals, before the gate
RunningScore(text) ==
  LET s1 == IF pension_match(text) THEN 30
            ELSE IF generic_match(text) THEN 15 ELSE 0
      s2 == s1 + 15 * Len(matched_assets(text))
      s3 == s2 + min(Len(matched_actions(text)) * 5, 25)
      s4 == s3 + (IF re_search(text) THEN 10 ELSE 0)
  IN  s4 - 20 * Len(matched_excludes(text))

\* if not (pension_match or score >= 15) or not asset_match
Gate(text, score) ==
  ~(pension_match(text) \/ score >= 15) \/ ~asset_match(text)

GatedScore(text) ==
  LET score == RunningScore(text)
  IN  IF Gate(text, score) THEN max(score - 30, 0) ELSE score

Clamp(score) == min(score, 100)

score_article(a) ==
  LET text == TextOf(a)
      funds == NamedFunds(text)
      acts == matched_actions(text)
  IN  [url |-> a.url, title |-> a.title, snippet |-> a.snippet, date |-> a.date,
       _score |-> Clamp(GatedScore(text)),
       _matched_pension |-> IF funds # << >> THEN << Head(funds) >> ELSE << >>,
       _matched_assets |-> matched_assets(text),
       _matched_actions |-> SubSeq(acts, 1, min(Len(acts), 5))]

-----------------------------------------------------------------------------
(* article_hash                                                            *)

\* hashlib.md5(key.encode()).hexdigest(): a digest of the normalised text;
\* two different texts are taken to have different digests
md5(key) == << "md5" >> \o key

\* [raised |-> TRUE] stands for the AttributeError of None.lower()
article_hash(a) ==
  LET v == or(get(a, "url"), get(a, "title"))
  IN  IF v.k = "none"
      THEN [raised |-> TRUE, h |-> << >>]
      ELSE [raised |-> FALSE, h |-> md5(strip(lower(v.s)))]

-----------------------------------------------------------------------------
(* The persisted store: load_seen_cache, save_seen_cache                   *)

\* datetime.isoformat(): zero-padded decimal fields, most significant first
isoformat(t) == << t \div 10, t % 10 >>

\* Python `a > b` on two str: lexicographic, a proper prefix is smaller
RECURSIVE StrGreater(_, _)
StrGreater(a, b) ==
  IF a = << >> THEN FALSE
  ELSE IF b = << >> THEN TRUE
  ELSE IF Head(a) # Head(b) THEN Head(a) > Head(b)
  ELSE StrGreater(Tail(a), Tail(b))

\* JSON values found in the store: a string, or something that is no string
JStr(s) == [t |-> "str", v |-> s]

JNum == [t |-> "num", v |-> << >>]

EmptyMap == [h \in {} |-> JNum]

\* What CACHE_FILE can hold
NoFile == [kind |-> "missing", data |-> EmptyMap]

Unreadable == [kind |-> "unreadable", data |-> EmptyMap]

Garbage == [kind |-> "garbage", data |-> EmptyMap]

JsonList == [kind |-> "list", data |-> EmptyMap]

JsonMap(m) == [kind |-> "map", data |-> m]

\* what the file is: "map" is a JSON object whose values are all strings
StoreKind(f) ==
  IF f.kind = "map" /\ \E k \in DOMAIN f.data : f.data[k].t # "str"
  THEN "badmap" ELSE f.kind

\* the pruning comprehension written with >= : an entry stamped exactly at
\* the cutoff is kept
TryLoad_KeepsCutoff(f, now) ==
  IF f.kind \in {"unreadable", "garbage", "list"}
  THEN [raised |-> TRUE, value |-> EmptyMap]
  ELSE IF \E k \in DOMAIN f.data : f.data[k].t # "str"
  THEN [raised |-> TRUE, value |-> EmptyMap]
  ELSE LET cutoff == isoformat(now - MAX_CACHE_AGE_DAYS)
           keep == {k \in DOMAIN f.data : ~StrGreater(cutoff, f.data[k].v)}
       IN  [raised |-> FALSE, value |-> [k \in keep |-> f.data[k]]]

\* the body of the try block: read_text, json.loads, the pruning comprehension
TryLoad(f, now) ==
  IF f.kind \in {"unreadable", "garbage", "list"}
  THEN [raised |-> TRUE, value |-> EmptyMap]
  ELSE IF \E k \in DOMAIN f.data : f.data[k].t # "str"
  THEN [raised |-> TRUE, value |-> EmptyMap]
  ELSE LET cutoff == isoformat(now - MAX_CACHE_AGE_DAYS)
           keep == {k \in DOMAIN f.data : StrGreater(f.data[k].v, cutoff)}
       IN  [raised |-> FALSE, value |-> [k \in keep |-> f.data[k]]]

\* load_seen_cache without its except clause
load_seen_cache_NoCatch(f, now) ==
  IF f.kind # "missing"
  THEN TryLoad(f, now)
  ELSE [raised |-> FALSE, value |-> EmptyMap]

load_seen_cache(f, now) ==
  IF f.kind # "missing"
  THEN LET r == TryLoad(f, now)
       IN  IF r.raised THEN [raised |-> FALSE, value |-> EmptyMap] ELSE r
  ELSE [raised |-> FALSE, value |-> EmptyMap]

\* a write that keeps the entries the file holds and adds the new ones
write_text_Merge(f, new) ==
  IF f.kind = "map" /\ new.kind = "map"
  THEN [new EXCEPT !.data = [h \in DOMAIN f.data \cup DOMAIN new.data |->
                               IF h \in DOMAIN new.data THEN new.data[h]
                               ELSE f.data[h]]]
  ELSE new

\* Path.write_text: what is written replaces whatever the file held
write_text(f, new) == new

\* CACHE_FILE.write_text(json.dumps(cache)): it succeeds, or it raises OSError
\* before the file is opened ("denied") or after it was truncated ("partial")
WriteOutcomes == {"ok", "denied", "partial"}

save_seen_cache(cache, outcome) ==
  CASE outcome = "ok" ->
         [raised |-> FALSE, file |-> write_text(file, JsonMap(cache))]
    [] outcome = "denied" -> [raised |-> TRUE, file |-> file]
    [] outcome = "partial" -> [raised |-> TRUE, file |-> Garbage]

-----------------------------------------------------------------------------
(* filter_and_rank                                                         *)

Keys(uq) == {uq[j].h : j \in 1..Len(uq)}

\* the for loop over articles, from index i on; `pos` and `at` record where
\* an entry came from and which indexes were scored
RECURSIVE Scan(_, _, _, _, _, _)
Scan(as, i, sc, uq, at, ms) ==
  IF i > Len(as) THEN [raised |-> FALSE, unique |-> uq, scored_at |-> at]
  ELSE LET hh == article_hash(as[i])
       IN  IF hh.raised THEN [raised |-> TRUE, unique |-> uq, scored_at |-> at]
           ELSE IF hh.h \in DOMAIN sc THEN Scan(as, i + 1, sc, uq, at, ms)
           ELSE IF hh.h \in Keys(uq) THEN Scan(as, i + 1, sc, uq, at, ms)
           ELSE LET s == score_article(as[i])
                    e == [h |-> hh.h, pos |-> i, scored |-> s]
                IN  IF s._score >= ms
                    THEN Scan(as, i + 1, sc, Append(uq, e), at \cup {i}, ms)
                    ELSE Scan(as, i + 1, sc, uq, at \cup {i}, ms)

\* an insertion that puts an element before those of equal score
RECURSIVE InsertSorted_BeforeEqual(_, _)
InsertSorted_BeforeEqual(e, s) ==
  IF s = << >> THEN << e >>
  ELSE IF Head(s).scored._score > e.scored._score
       THEN << Head(s) >> \o InsertSorted_BeforeEqual(e, Tail(s))
       ELSE << e >> \o s

\* sorted(..., key=_score, reverse=True) is stable: an element goes after
\* every element placed before it whose score is not smaller
RECURSIVE InsertSorted(_, _)
InsertSorted(e, s) ==
  IF s = << >> THEN << e >>
  ELSE IF Head(s).scored._score >= e.scored._score
       THEN << Head(s) >> \o InsertSorted(e, Tail(s))
       ELSE << e >> \o s

RECURSIVE sorted(_)
sorted(uq) ==
  IF uq = << >> THEN << >>
  ELSE InsertSorted(uq[Len(uq)], sorted(SubSeq(uq, 1, Len(uq) - 1)))

\* an update that stamps every entry of the map, old and new
UpdateCache_RefreshAll(sc, uq, now) ==
  [h \in DOMAIN sc \cup Keys(uq) |-> JStr(now)]

\* the loop that marks the kept results left out
UpdateCache_NoMark(sc, uq, now) == sc

\* for h in unique: seen_cache[h] = now
UpdateCache(sc, uq, now) ==
  [h \in DOMAIN sc \cup Keys(uq) |-> IF h \in Keys(uq) THEN JStr(now) ELSE sc[h]]

-----------------------------------------------------------------------------
(* Bounds and inputs                                                       *)

MaxBatch == 2

MaxRuns == 3

MaxDays == 30

MaxFaults == 1

\* the oldest entry of a store handed to load_seen_cache, in days
MaxAge == 32

\* by how many days the clock moves in one step
Steps == {15, 29}

\* the process of run_monitor, and a second invocation of the script
Procs == {1, 2}

MinScores == {25, 50}

Article(url, title, snippet, date) ==
  [url |-> url, title |-> title, snippet |-> snippet, date |-> date]

\* raw results as the search functions hand them over
LowFirst ==
  Article(Str(<< "http://x/a" >>), Str(<< "pension fund", "lawsuit" >>),
          Str(<< >>), Str(<< >>))

HighSameUrl ==
  Article(Str(<< "HTTP://X/A", " " >>),
          Str(<< "CalPERS", "approves", "$500 million" >>),
          Str(<< "private credit fund" >>), Str(<< >>))

MidB ==
  Article(Str(<< "http://x/b" >>),
          Str(<< "pension fund", "private equity", "committed" >>),
          Str(<< >>), Str(<< >>))

MidNoUrl ==
  Article(Absent, Str(<< "pension fund", "venture capital", "committed" >>),
          Absent, Absent)

AllMissing == Article(Absent, Absent, Absent, Absent)

NullRecord == Article(None, None, None, None)

Palette == {LowFirst, HighSameUrl, MidB, MidNoUrl, AllMissing, NullRecord}

Batches == UNION {[1..n -> Palette] : n \in 0..MaxBatch}

\* stores that no run of this program wrote
CorruptStores ==
  {Unreadable, Garbage, JsonList, JsonMap([h \in {md5(<< "http://x/a" >>)} |-> JNum])}

\* inputs of the scorer harness: every combination of the fragments
TitleWords ==
  << "CalPERS", "pension fund", "private equity", "private credit fund",
     "co-investment", "lawsuit", "fraud" >>

SnippetWords ==
  << "venture capital", "committed", "approves", "$500 million", "scandal",
     "pension crisis" >>

Texts(words) ==
  {Str(SelectSeq(words, LAMBDA w : w \in S)) : S \in SUBSET {words[i] : i \in 1..Len(words)}}

ScoreInputs ==
  {Article(Absent, t, s, Absent) :
     t \in Texts(TitleWords) \cup {Absent, None},
     s \in Texts(SnippetWords) \cup {Absent, None}}

NotScored == [_score |-> -1000]

NotLoaded == [clock |-> 0]

-----------------------------------------------------------------------------
(* The state machine                                                       *)

Init ==
  /\ clock = MAX_CACHE_AGE_DAYS
  /\ file = NoFile
  /\ pc = [r \in Procs |-> "idle"]
  /\ articles = [r \in Procs |-> << >>]
  /\ min_score = [r \in Procs |-> 25]
  /\ seen_cache = [r \in Procs |-> EmptyMap]
  /\ unique = [r \in Procs |-> << >>]
  /\ ranked = [r \in Procs |-> << >>]
  /\ error = [r \in Procs |-> "none"]
  /\ loaded = [r \in Procs |-> NotLoaded]
  /\ runs = 0
  /\ delivered = {}
  /\ faults = 0
  /\ article = LowFirst
  /\ scored = NotScored

\* the call repeats no earlier call
NoRepeat == [at |-> -1, cache |-> EmptyMap]

\* filter_and_rank as one call: load the store, scan the batch, update and
\* save the store, sort, return (or raise); `again` tells which call this
\* one repeats with the same arguments: its day and the map it had loaded
Call(r, as, ms, outcome, again) ==
  \E ld \in {load_seen_cache(file, clock)} :
  \E sc \in {Scan(as, 1, ld.value, << >>, {}, ms)} :
  \E sv \in {save_seen_cache(UpdateCache(ld.value, sc.unique, isoformat(clock)),
                             outcome)} :
    LET exc == IF ld.raised THEN "load"
               ELSE IF sc.raised THEN "hash"
               ELSE IF sv.raised THEN "save" ELSE "none"
    IN  /\ articles' = [articles EXCEPT ![r] = as]
        /\ min_score' = [min_score EXCEPT ![r] = ms]
        /\ loaded' = [loaded EXCEPT ![r] =
                        [store |-> StoreKind(file), clock |-> clock,
                         cache |-> ld.value, scored_at |-> sc.scored_at,
                         again |-> again]]
        /\ error' = [error EXCEPT ![r] = exc]
        /\ pc' = [pc EXCEPT ![r] = IF exc = "none" THEN "done" ELSE "raised"]
        /\ file' = IF exc \in {"load", "hash"} THEN file ELSE sv.file
        /\ seen_cache' = [seen_cache EXCEPT ![r] =
                            IF exc = "none" THEN sv.file.data ELSE ld.value]
        /\ unique' = [unique EXCEPT ![r] = IF exc = "load" THEN << >> ELSE sc.unique]
        /\ ranked' = [ranked EXCEPT ![r] =
                        IF exc = "none" THEN sorted(sc.unique) ELSE << >>]
        /\ UNCHANGED << clock, faults, article, scored >>

\* run_monitor: one invocation of the script calls filter_and_rank once
Run(r, as, ms, outcome) ==
  /\ pc[r] = "idle"
  /\ Call(r, as, ms, outcome, NoRepeat)
  /\ UNCHANGED << runs, delivered >>

\* the invocation ends; what the call held is gone
Exit(r) ==
  /\ pc[r] \in {"done", "raised"}
  /\ pc' = [pc EXCEPT ![r] = "idle"]
  /\ articles' = [articles EXCEPT ![r] = << >>]
  /\ min_score' = [min_score EXCEPT ![r] = 25]
  /\ seen_cache' = [seen_cache EXCEPT ![r] = EmptyMap]
  /\ unique' = [unique EXCEPT ![r] = << >>]
  /\ ranked' = [ranked EXCEPT ![r] = << >>]
  /\ error' = [error EXCEPT ![r] = "none"]
  /\ loaded' = [loaded EXCEPT ![r] = NotLoaded]
  /\ UNCHANGED << clock, file, runs, delivered, faults, article, scored >>

\* time passes
Advance(d) ==
  /\ clock + d <= MAX_CACHE_AGE_DAYS + MaxDays
  /\ clock' = clock + d
  /\ UNCHANGED << file, pc, articles, min_score, seen_cache, unique, ranked,
                  error, loaded, runs, delivered, faults, article, scored >>

\* the file is damaged or replaced from outside the program
Corrupt(c) ==
  /\ faults < MaxFaults
  /\ faults' = faults + 1
  /\ file # c
  /\ file' = c
  /\ UNCHANGED << clock, pc, articles, min_score, seen_cache, unique, ranked,
                  error, loaded, runs, delivered, article, scored >>

Idle == \A r \in Procs : pc[r] = "idle"

\* Invocations of the script follow one another; between two of them time
\* passes and the file may be damaged.
Next ==
  \/ \E as \in Batches, ms \in MinScores, o \in WriteOutcomes : Run(1, as, ms, o)
  \/ Exit(1)
  \/ \E d \in Steps : Idle /\ Advance(d)
  \/ \E c \in CorruptStores : Idle /\ Corrupt(c)

Spec == Init /\ [][Next]_vars

\* The log of what completed calls returned
Log(r) ==
  /\ runs' = runs + 1
  /\ delivered' = delivered \cup
       {[h |-> ranked'[r][j].h, run |-> runs + 1, start |-> clock, at |-> clock] :
          j \in 1..Len(ranked'[r])}

\* a call whose write succeeds
RunLogged(r, as, ms) ==
  /\ pc[r] = "idle"
  /\ runs < MaxRuns
  /\ Call(r, as, ms, "ok", NoRepeat)
  /\ Log(r)

\* rank is called again on the batch it has just returned from
Rerun(r) ==
  /\ pc[r] = "done"
  /\ runs < MaxRuns
  /\ Call(r, articles[r], min_score[r], "ok",
          [at |-> loaded[r].clock, cache |-> loaded[r].cache])
  /\ Log(r)

\* Calls follow one another with the threshold that run_monitor passes,
\* nothing damages the store, every write succeeds.
NextPersisted ==
  \/ \E as \in Batches : RunLogged(1, as, 25)
  \/ Rerun(1)
  \/ Exit(1)
  \/ \E d \in Steps : Advance(d)

SpecPersisted == Init /\ [][NextPersisted]_vars

\* the batches of overlapping invocations: an article alone, and a batch in
\* which one article was delivered before, one scores below the threshold
\* and one is new
OverlapBatches == {<< MidB >>, << MidNoUrl >>, << MidB, LowFirst, MidNoUrl >>}

\* filter_and_rank up to the return of load_seen_cache; `run` numbers the
\* calls in the order they start and `prior` holds the calls that had
\* delivered before this one loaded
Load(r, as, ms) ==
  /\ pc[r] = "idle"
  /\ runs < MaxRuns
  /\ \E ld \in {load_seen_cache(file, clock)} :
       /\ seen_cache' = [seen_cache EXCEPT ![r] = ld.value]
       /\ loaded' = [loaded EXCEPT ![r] =
                       [store |-> StoreKind(file), clock |-> clock,
                        cache |-> ld.value, scored_at |-> {},
                        again |-> NoRepeat, run |-> runs + 1,
                        prior |-> {d.run : d \in delivered}, saved |-> -1]]
       /\ error' = [error EXCEPT ![r] = IF ld.raised THEN "load" ELSE "none"]
       /\ pc' = [pc EXCEPT ![r] = IF ld.raised THEN "raised" ELSE "loaded"]
  /\ articles' = [articles EXCEPT ![r] = as]
  /\ min_score' = [min_score EXCEPT ![r] = ms]
  /\ runs' = runs + 1
  /\ UNCHANGED << clock, file, unique, ranked, delivered, faults, article,
                  scored >>

\* filter_and_rank from the loop to the return: scan the batch, take the
\* time, update the loaded map, write it, sort
Finish(r, outcome) ==
  /\ pc[r] = "loaded"
  /\ \E sc \in {Scan(articles[r], 1, seen_cache[r], << >>, {}, min_score[r])} :
     \E sv \in {save_seen_cache(UpdateCache(seen_cache[r], sc.unique,
                                            isoformat(clock)), outcome)} :
       LET exc == IF sc.raised THEN "hash"
                  ELSE IF sv.raised THEN "save" ELSE "none"
       IN  /\ loaded' = [loaded EXCEPT ![r].scored_at = sc.scored_at,
                                       ![r].saved = clock]
           /\ error' = [error EXCEPT ![r] = exc]
           /\ pc' = [pc EXCEPT ![r] = IF exc = "none" THEN "done" ELSE "raised"]
           /\ file' = IF exc = "hash" THEN file ELSE sv.file
           /\ seen_cache' = [seen_cache EXCEPT ![r] =
                               IF exc = "none" THEN sv.file.data ELSE @]
           /\ unique' = [unique EXCEPT ![r] = sc.unique]
           /\ ranked' = [ranked EXCEPT ![r] =
                           IF exc = "none" THEN sorted(sc.unique) ELSE << >>]
           /\ delivered' = delivered \cup
                {[h |-> sc.unique[j].h, run |-> loaded[r].run,
                  start |-> loaded[r].clock, at |-> clock] :
                   j \in 1..(IF exc = "none" THEN Len(sc.unique) ELSE 0)}
  /\ UNCHANGED << clock, articles, min_score, runs, faults, article, scored >>

\* Two invocations of the script run with nothing between them but the
\* file: either may load, finish or exit at any moment, and time passes.
NextOverlap ==
  \/ \E r \in Procs, as \in OverlapBatches : Load(r, as, 25)
  \/ \E r \in Procs : Finish(r, "ok")
  \/ \E r \in Procs : Exit(r)
  \/ \E d \in Steps : Advance(d)

SpecOverlap == Init /\ [][NextOverlap]_vars

\* load_seen_cache alone, on every store of StoreInputs
StampedKeys == {md5(<< "http://x/a" >>), md5(<< "http://x/b" >>)}

Stamps(now) == {JStr(isoformat(now - age)) : age \in 0..min(MaxAge, now)}

StoreInputs(now) ==
  {JsonMap(m) : m \in UNION {[K -> Stamps(now)] : K \in SUBSET StampedKeys}}
    \cup CorruptStores \cup {NoFile}

InitLoad ==
  /\ clock \in MAX_CACHE_AGE_DAYS..(MAX_CACHE_AGE_DAYS + MaxDays)
  /\ file \in StoreInputs(clock)
  /\ Init!3 /\ Init!4 /\ Init!5 /\ Init!6 /\ Init!7 /\ Init!8 /\ Init!9
  /\ Init!10 /\ Init!11 /\ Init!12 /\ Init!13 /\ Init!14 /\ Init!15

LoadStep(r) ==
  /\ pc[r] = "idle"
  /\ \E ld \in {load_seen_cache(file, clock)} :
       /\ seen_cache' = [seen_cache EXCEPT ![r] = ld.value]
       /\ pc' = [pc EXCEPT ![r] = IF ld.raised THEN "raised" ELSE "loaded"]
       /\ error' = [error EXCEPT ![r] = IF ld.raised THEN "load" ELSE "none"]
  /\ UNCHANGED << clock, file, articles, min_score, unique, ranked, loaded, runs,
                  delivered, faults, article, scored >>

NextLoad == LoadStep(1)

SpecLoad == InitLoad /\ [][NextLoad]_vars

\* the scorer alone, on every input of ScoreInputs
InitScore ==
  /\ Init!1 /\ Init!2 /\ Init!3 /\ Init!4 /\ Init!5 /\ Init!6 /\ Init!7
  /\ Init!8 /\ Init!9 /\ Init!10 /\ Init!11 /\ Init!12 /\ Init!13
  /\ article \in ScoreInputs
  /\ scored = NotScored

ScoreStep ==
  /\ scored = NotScored
  /\ scored' = score_article(article)
  /\ UNCHANGED << article, clock, file, pc, articles, min_score, seen_cache,
                  unique, ranked, error, loaded, runs, delivered, faults >>

NextScore == ScoreStep

SpecScore == InitScore /\ [][NextScore]_vars

-----------------------------------------------------------------------------
(* Properties of the scorer (SpecScore)                                    *)

Scored == scored # NotScored

\* C1: whatever pension, asset-class, action, dollar-amount and exclusion
\* phrases an article matches, the score that score_article assigns lies
\* between 0 and 100.
C1_ScoreBounds == Scored => 0 <= scored._score /\ scored._score <= 100

\* C2: an article whose text contains no asset-class phrase is scored 0,
\* whatever else it matches.
C2_GateLaw ==
  Scored /\ ~asset_match(TextOf(article)) => scored._score = 0

\* C10: the score is reduced by 30 (floored at 0) exactly when
\* NOT (a named or a generic pension signal matched OR the running score
\* is >= 15) OR no asset-class phrase matched; so an article with a generic
\* pension match and an asset-class match is never reduced.
C10_GateCondition ==
  Scored =>
    LET text == TextOf(article)
        running == RunningScore(text)
        reduce == ~(pension_match(text) \/ generic_match(text) \/ running >= 15)
                    \/ ~asset_match(text)
    IN  scored._score = Clamp(IF reduce THEN max(running - 30, 0) ELSE running)

\* C13: every article that score_article scores at or above the default
\* threshold 25 matched at least one asset-class phrase and matched a named
\* or a generic pension signal.
C13_BothSignals ==
  Scored /\ scored._score >= 25 =>
    LET text == TextOf(article)
    IN  /\ asset_match(text)
        /\ pension_match(text) \/ generic_match(text)

-----------------------------------------------------------------------------
(* Properties of load_seen_cache (SpecLoad)                                *)

\* the day a rendered timestamp stands for
Days(s) == s[1] * 10 + s[2]

\* C5: load_seen_cache returns exactly the persisted entries stamped later
\* than now - 30 days, each with its timestamp: an entry 31 or 30 days old
\* is absent, one 29 days old is present.
C5_TTLEviction ==
  \A r \in Procs :
    pc[r] = "loaded" /\ StoreKind(file) = "map" =>
      /\ DOMAIN seen_cache[r] =
           {k \in DOMAIN file.data :
              Days(file.data[k].v) > clock - MAX_CACHE_AGE_DAYS}
      /\ \A k \in DOMAIN seen_cache[r] : seen_cache[r][k] = file.data[k]

\* a store with one entry 31 days old and one 29 days old has been loaded:
\* the first is gone, the second is kept
C5_Witness ==
  /\ pc[1] = "loaded" /\ StoreKind(file) = "map"
  /\ \E k1, k2 \in DOMAIN file.data :
       /\ Days(file.data[k1].v) = clock - 31 /\ k1 \notin DOMAIN seen_cache[1]
       /\ Days(file.data[k2].v) = clock - 29 /\ k2 \in DOMAIN seen_cache[1]

-----------------------------------------------------------------------------
(* Properties of filter_and_rank (Spec, SpecPersisted)                     *)

Returned(r) == pc[r] = "done"

Ended(r) == pc[r] \in {"done", "raised"}

KeyOf(a) == article_hash(a).h

\* index i is the first one in the batch with its identity key
FirstOccurrence(as, i) == \A j \in 1..(i - 1) : KeyOf(as[j]) # KeyOf(as[i])

\* C3: of the records of one batch that share an identity key, only the
\* first in input order can be returned, and the later ones are not scored,
\* also when the first one scored below min_score.
C3_FirstOccurrenceWins ==
  \A r \in Procs :
    Returned(r) =>
      /\ \A j \in 1..Len(ranked[r]) : FirstOccurrence(articles[r], ranked[r][j].pos)
      /\ \A i \in loaded[r].scored_at : FirstOccurrence(articles[r], i)

\* a call returned, and it repeats on the same batch a call made less than
\* 30 days before
Repeated(r) ==
  /\ Returned(r)
  /\ loaded[r].again.at >= 0
  /\ loaded[r].clock - loaded[r].again.at < MAX_CACHE_AGE_DAYS

\* no article of the batch was in the map that the repeated call had loaded
FirstSighting(r) ==
  \A i \in 1..Len(articles[r]) :
    article_hash(articles[r][i]).h \notin DOMAIN loaded[r].again.cache

\* an article that a call returned is not returned by a later call that
\* starts less than 30 days afterwards
NotRedelivered ==
  \A d1, d2 \in delivered :
    d1.h = d2.h /\ d1.run < d2.run => d2.start - d1.at >= MAX_CACHE_AGE_DAYS

\* C4: an article that a call returned is not returned by a later call that
\* starts less than 30 days afterwards, and a call repeated on the same batch
\* less than 30 days after the first returns nothing, provided the first
\* call found none of the batch's articles in the store.
C4_CrossRunDedup ==
  /\ NotRedelivered
  /\ \A r \in Procs : Repeated(r) /\ FirstSighting(r) => ranked[r] = << >>

\* C4 as stated: an article that a call returned is not returned by a later
\* call that starts less than 30 days afterwards, and any call repeated on
\* the same batch less than 30 days after the first returns nothing.
C4_AsStated ==
  /\ NotRedelivered
  /\ \A r \in Procs : Repeated(r) => ranked[r] = << >>

\* a call returned articles it had not seen before, and the call repeated
\* on that batch 29 days later has returned nothing
C4_Witness ==
  /\ Repeated(1) /\ FirstSighting(1)
  /\ loaded[1].clock - loaded[1].again.at = 29
  /\ \E d \in delivered : d.run = runs - 1 /\ d.at = loaded[1].again.at
  /\ ranked[1] = << >>

\* C6: the returned list is sorted by score, highest first, and items of
\* equal score keep the order in which the batch was scanned.
C6_Ordering ==
  \A r \in Procs :
    Returned(r) =>
      \A i, j \in 1..Len(ranked[r]) :
        i < j =>
          /\ ranked[r][i].scored._score >= ranked[r][j].scored._score
          /\ ranked[r][i].scored._score = ranked[r][j].scored._score
               => ranked[r][i].pos < ranked[r][j].pos

\* two items of equal score have been returned
C6_Witness ==
  /\ Returned(1) /\ Len(ranked[1]) = 2
  /\ ranked[1][1].scored._score = ranked[1][2].scored._score

\* C7: when writing the store fails, the call still returns its ranked
\* results.
C7_PersistFailureNotFatal ==
  \A r \in Procs : error[r] = "save" => Returned(r)

Filled(a) == [f \in DOMAIN a |-> IF a[f] = Absent THEN Str(<< >>) ELSE a[f]]

HasMissing(a) == \E f \in DOMAIN a : a[f] = Absent

HasNull(a) == \E f \in DOMAIN a : a[f] = None

-----------------------------------------------------------------------------
(* Properties of overlapping calls (SpecOverlap)                           *)

\* the step in which call r writes the store and returns
Saves(r) == pc[r] = "loaded" /\ pc'[r] = "done"

\* what a returned call wrote is the map it loaded plus its results
FrameOfUpdate(r) ==
  LET before == loaded[r].cache
      after == seen_cache[r]
      got == Keys(ranked[r])
  IN  /\ DOMAIN after = DOMAIN before \cup got
      /\ \A h \in got : after[h] = JStr(isoformat(loaded[r].saved))
      /\ \A h \in DOMAIN before \ got : after[h] = before[h]
      /\ \A i \in 1..Len(articles[r]) :
           KeyOf(articles[r][i]) \notin got \cup DOMAIN before
             => KeyOf(articles[r][i]) \notin DOMAIN after

\* the positions a call goes through: it loads once, then saves once
OneLoadOneSave(r) ==
  /\ pc'[r] # pc[r] =>
        << pc[r], pc'[r] >> \in {<< "idle", "loaded" >>, << "loaded", "done" >>,
                                << "loaded", "raised" >>, << "done", "idle" >>,
                                << "raised", "idle" >>}
  /\ pc[r] # "idle" /\ pc'[r] # "idle" => loaded'[r].cache = loaded[r].cache

\* C11: the map a call persists is the map it loaded with exactly the keys
\* of the returned results set to the call's timestamp; every other loaded
\* entry keeps its timestamp, no key is added for an article that was
\* skipped or scored below min_score, and the store is loaded once and
\* saved once per call.
C11_StoreUpdate ==
  /\ [](\A r \in Procs : Returned(r) => FrameOfUpdate(r))
  /\ [][\A r \in Procs :
          /\ Saves(r) => file' = JsonMap(seen_cache'[r])
          /\ OneLoadOneSave(r)]_vars
  /\ [][file' # file => \E r \in Procs : Saves(r)]_vars

\* a call has returned one new article from a batch that also holds an
\* article delivered 15 days earlier, whose entry it kept, and an article
\* scored below the threshold
C11_Witness ==
  \E r \in Procs :
    /\ Returned(r) /\ Len(articles[r]) = 3 /\ Len(ranked[r]) = 1
    /\ loaded[r].scored_at = {2, 3}
    /\ KeyOf(articles[r][1]) \in DOMAIN loaded[r].cache
    /\ Days(seen_cache[r][KeyOf(articles[r][1])].v) = loaded[r].saved - 15
    /\ KeyOf(articles[r][2]) \notin DOMAIN seen_cache[r]

\* C12: nothing serializes the calls, and when two of them overlap the
\* later save overwrites the earlier one's update: after a save the store
\* holds no key that the saving call neither loaded nor returned, whatever
\* another call wrote in between.
C12_LostUpdate ==
  [][\A r \in Procs :
       Saves(r) =>
         /\ file'.kind = "map"
         /\ DOMAIN file'.data = DOMAIN loaded[r].cache \cup Keys(ranked'[r])]_vars

\* a call has returned an article that an earlier, finished call delivered
\* less than 30 days before it started: the earlier call's entry was
\* overwritten by the save of a call that overlapped it
C12_Witness ==
  \E r \in Procs : \E d \in delivered :
    /\ Returned(r)
    /\ d.run \in loaded[r].prior
    /\ d.h \in Keys(ranked[r])
    /\ loaded[r].clock - d.at < MAX_CACHE_AGE_DAYS
    /\ \E q \in Procs \ {r} :
         /\ Returned(q) /\ d.run \notin loaded[q].prior
         /\ d.run # loaded[q].run /\ loaded[q].run \in loaded[r].prior
         /\ d.h \notin DOMAIN seen_cache[q]

====
